---- MODULE Spec2Model ----
(***************************************************************************)
(* A model of dns-sniff-exporter: the Internet-checksum engine (ip.rs),    *)
(* the IPv4 / UDP parsers (ip.rs, tcp_udp.rs), the statistics aggregator   *)
(* (stats.rs) and the capture pipeline of collect_sample (sampling.rs).    *)
(*                                                                         *)
(* Bytes are naturals 0..255, byte slices are sequences.  Rust's           *)
(* zero-based half-open slice bytes[a..b] is Slice(bytes, a, b).           *)
(***************************************************************************)
EXTENDS Integers, Sequences, FiniteSets, TLC

VARIABLES
    \* ---- collect_sample (sampling.rs) ----
    pcP,              \* position of the producer closure (spawn_blocking task)
    pcC,              \* position of the consumer (the async body of collect_sample)
    elapsed,          \* Instant::now() - start_time, in clock ticks
    sample_duration,  \* the sampling duration, in clock ticks
    buffer_size,      \* capacity of the mpsc channel
    queue,            \* the frames held by the channel
    rx_open,          \* the receiver half of the channel has not been dropped
    in_hand,          \* the packet the producer is sending (<<>> when none)
    captured,         \* history: the frames cap.next_packet() has returned
    received,         \* history: the frames packet_receiver.recv() has returned
    lost,             \* history: the frames blocking_send failed to enqueue
    capture_error,    \* the capture source reported a non-timeout error
    logged,           \* number of warn!/error! lines per kind
    result,           \* what collect_sample handed to its caller
    overflow_checks,  \* the build panics on integer overflow (else it wraps)
    \* ---- DnsStats (stats.rs); `statistics` of collect_sample ----
    statistics,
    calls,            \* history: the arguments of the add_query calls
    \* ---- inputs and outputs of the pure functions ----
    inp,
    out

vars == <<pcP, pcC, elapsed, sample_duration, buffer_size, queue, rx_open,
          in_hand, captured, received, lost, capture_error, logged, result,
          overflow_checks, statistics, calls, inp, out>>

pipeVars == <<pcP, pcC, elapsed, sample_duration, buffer_size, queue, rx_open,
              in_hand, captured, received, lost, capture_error, logged, result,
              overflow_checks>>

(***************************************************************************)
(* Generic helpers                                                         *)
(***************************************************************************)
Slice(bytes, a, b) == SubSeq(bytes, a + 1, b)

SliceFrom(bytes, a) == SubSeq(bytes, a + 1, Len(bytes))

u16_from_be_bytes(bs) == bs[1] * 256 + bs[2]

u16_to_be_bytes(w) == <<w \div 256, w % 256>>

RECURSIVE Pow2(_)
Pow2(k) == IF k = 0 THEN 1 ELSE 2 * Pow2(k - 1)

\* bit k of byte b
BitOf(b, k) == (b \div Pow2(k)) % 2

\* b ^ (1 << k)
FlipBit(b, k) == IF BitOf(b, k) = 1 THEN b - Pow2(k) ELSE b + Pow2(k)

SeqSum(s) ==
    LET RECURSIVE go(_)
        go(i) == IF i > Len(s) THEN 0 ELSE s[i] + go(i + 1)
    IN go(1)

(***************************************************************************)
(* ip.rs: the checksum engine                                              *)
(***************************************************************************)
U16 == 65536

\* a.overflowing_add(b): the truncated sum and the carry flag
overflowing_add(a, b) == [sum |-> (a + b) % U16, carry |-> (a + b) >= U16]

\* whether `sum += 1` of ones_complement_add leaves the u16 range
ones_complement_add_overflows(a, b) ==
    LET r == overflowing_add(a, b) IN r.carry /\ r.sum + 1 >= U16

ones_complement_add_nocarry(a, b) == overflowing_add(a, b).sum

ones_complement_add(a, b) ==
    LET r == overflowing_add(a, b)
    IN IF r.carry THEN (r.sum + 1) % U16 ELSE r.sum

\* the loop of internet_checksum: the running ones'-complement sum of the
\* big-endian words of bytes, an odd trailing byte padded with 0x00.
\* (checksum is a u16, so the first test never holds; it has the running
\* sum computed before the next word is read, as the loop does.)
RECURSIVE checksum_loop(_, _, _)
checksum_loop(bytes, i, checksum) ==
    IF checksum >= U16 \/ i > Len(bytes) THEN checksum
    ELSE LET top_byte == bytes[i]
             bottom_byte == IF i + 1 <= Len(bytes) THEN bytes[i + 1] ELSE 0
             word == top_byte * 256 + bottom_byte
         IN checksum_loop(bytes, i + 2, ones_complement_add(checksum, word))

internet_checksum_plain_not(bytes) == 65535 - checksum_loop(bytes, 1, 0)

internet_checksum(bytes) ==
    LET checksum == checksum_loop(bytes, 1, 0)
    IN IF checksum = 65535 THEN 65535
       ELSE 65535 - checksum      \* checksum ^ 0xFFFF

(***************************************************************************)
(* packet.rs: PacketDissection.  A dissection is a record whose tag is one *)
(* of Success, TooShort, WrongType, IncorrectChecksum.                     *)
(***************************************************************************)
Success(header, rest) == [tag |-> "Success", header |-> header, rest |-> rest]

TooShort == [tag |-> "TooShort"]

WrongType == [tag |-> "WrongType"]

IncorrectChecksum == [tag |-> "IncorrectChecksum"]

(***************************************************************************)
(* ip.rs: Ipv4Header                                                       *)
(***************************************************************************)
PROTO_TCP == 6

PROTO_UDP == 17

\* the loop filling `options`: the populated entries, in order (the other
\* entries of the 10-element array stay None)
RECURSIVE Ipv4Options(_, _, _)
Ipv4Options(bytes, header_length_bytes, i) ==
    IF 20 + (i * 4) < header_length_bytes
    THEN <<Slice(bytes, 20 + (i * 4), 20 + (i * 4) + 4)>>
         \o Ipv4Options(bytes, header_length_bytes, i + 1)
    ELSE <<>>

\* try_take with one of its tests changed: the version test left out, another
\* least header length, or the checksum taken over the whole buffer
Ipv4Header_try_take_variant(bytes, check_version, least_header, whole_buffer) ==
    IF Len(bytes) < 20 THEN TooShort
    ELSE LET version == bytes[1] \div 16
             header_length_bytes == (bytes[1] % 16) * 4
         IN IF check_version /\ version # 4 THEN WrongType
            ELSE IF header_length_bytes < least_header THEN TooShort
            ELSE IF Len(bytes) < header_length_bytes THEN TooShort
            ELSE IF internet_checksum(IF whole_buffer THEN bytes
                                      ELSE Slice(bytes, 0, header_length_bytes)) # 65535
                 THEN IncorrectChecksum
            ELSE Success(
                   [version |-> version,
                    type_of_service |-> bytes[2],
                    total_length |-> u16_from_be_bytes(Slice(bytes, 2, 4)),
                    identification |-> u16_from_be_bytes(Slice(bytes, 4, 6)),
                    flags_and_fragment_offset |-> u16_from_be_bytes(Slice(bytes, 6, 8)),
                    time_to_live |-> bytes[9],
                    protocol |-> bytes[10],
                    header_checksum |-> u16_from_be_bytes(Slice(bytes, 10, 12)),
                    source_address |-> Slice(bytes, 12, 16),
                    destination_address |-> Slice(bytes, 16, 20),
                    options |-> Ipv4Options(bytes, header_length_bytes, 0)],
                   SliceFrom(bytes, header_length_bytes))

Ipv4Header_try_take_any_version(bytes) ==
    Ipv4Header_try_take_variant(bytes, FALSE, 20, FALSE)

Ipv4Header_try_take_short_header(bytes) ==
    Ipv4Header_try_take_variant(bytes, TRUE, 16, FALSE)

Ipv4Header_try_take_whole_buffer(bytes) ==
    Ipv4Header_try_take_variant(bytes, TRUE, 20, TRUE)

Ipv4Header_try_take(bytes) ==
    IF Len(bytes) < 20 THEN TooShort
    ELSE LET version == bytes[1] \div 16            \* (bytes[0] & 0xF0) >> 4
         IN IF version # 4 THEN WrongType
            ELSE LET header_length_w32 == bytes[1] % 16      \* bytes[0] & 0x0F
                     header_length_bytes == header_length_w32 * 4
                 IN IF header_length_bytes < 20 THEN TooShort
                    ELSE IF Len(bytes) < header_length_bytes THEN TooShort
                    ELSE IF internet_checksum(Slice(bytes, 0, header_length_bytes)) # 65535
                         THEN IncorrectChecksum
                    ELSE Success(
                           [version |-> version,
                            type_of_service |-> bytes[2],
                            total_length |-> u16_from_be_bytes(Slice(bytes, 2, 4)),
                            identification |-> u16_from_be_bytes(Slice(bytes, 4, 6)),
                            flags_and_fragment_offset |-> u16_from_be_bytes(Slice(bytes, 6, 8)),
                            time_to_live |-> bytes[9],
                            protocol |-> bytes[10],
                            header_checksum |-> u16_from_be_bytes(Slice(bytes, 10, 12)),
                            source_address |-> Slice(bytes, 12, 16),
                            destination_address |-> Slice(bytes, 16, 20),
                            options |-> Ipv4Options(bytes, header_length_bytes, 0)],
                           SliceFrom(bytes, header_length_bytes))

\* l4_length of to_pseudo_header before truncation to u16: total_length - 20,
\* then - 4 for every populated option
Ipv4_l4_length(h) == h.total_length - 20 - 4 * Len(h.options)

\* Ipv4Header::to_pseudo_header.  A u16 subtraction that goes below zero
\* panics when the build checks overflow and wraps otherwise: `underflow`
\* says that one did, `bytes` is the wrapped result.
Ipv4Header_to_pseudo_header(h) ==
    [underflow |-> Ipv4_l4_length(h) < 0,
     bytes |-> h.source_address \o h.destination_address
               \o <<0, h.protocol>>
               \o u16_to_be_bytes(Ipv4_l4_length(h) % U16)]

(***************************************************************************)
(* tcp_udp.rs: UdpHeader                                                   *)
(***************************************************************************)
\* try_take without the checksum test
UdpHeader_try_take_nochecksum(bytes, pseudo_header) ==
    IF Len(bytes) < 8 THEN TooShort
    ELSE Success([source_port |-> u16_from_be_bytes(Slice(bytes, 0, 2)),
                  destination_port |-> u16_from_be_bytes(Slice(bytes, 2, 4)),
                  length |-> u16_from_be_bytes(Slice(bytes, 4, 6)),
                  checksum |-> u16_from_be_bytes(Slice(bytes, 6, 8))],
                 SliceFrom(bytes, 8))

UdpHeader_try_take(bytes, pseudo_header) ==
    IF Len(bytes) < 8 THEN TooShort
    ELSE LET source_port == u16_from_be_bytes(Slice(bytes, 0, 2))
             destination_port == u16_from_be_bytes(Slice(bytes, 2, 4))
             length == u16_from_be_bytes(Slice(bytes, 4, 6))
             checksum == u16_from_be_bytes(Slice(bytes, 6, 8))
             full_checksum == internet_checksum(pseudo_header \o bytes)
         IN IF full_checksum # 65535 THEN IncorrectChecksum
            ELSE Success([source_port |-> source_port,
                          destination_port |-> destination_port,
                          length |-> length,
                          checksum |-> checksum],
                         SliceFrom(bytes, 8))

(***************************************************************************)
(* ip.rs: Ipv6Header, IpHeader                                             *)
(***************************************************************************)
Ipv6Header_try_take(bytes) ==
    IF Len(bytes) < 40 THEN TooShort
    ELSE LET version == bytes[1] \div 16                 \* first_field >> 28
         IN IF version # 6 THEN WrongType
            ELSE Success(
                   [version |-> version,
                    traffic_class |-> (bytes[1] % 16) * 16 + bytes[2] \div 16,
                    flow_label |-> (bytes[2] % 16) * 65536 + bytes[3] * 256 + bytes[4],
                    payload_length |-> u16_from_be_bytes(Slice(bytes, 4, 6)),
                    next_header |-> bytes[7],
                    hop_limit |-> bytes[8],
                    source_address |-> Slice(bytes, 8, 24),
                    destination_address |-> Slice(bytes, 24, 40)],
                   SliceFrom(bytes, 40))

\* Ipv6Header::to_pseudo_header: l4_length is the u16 payload_length - 40
\* (see Ipv4Header_to_pseudo_header for `underflow`), widened to u32
Ipv6Header_to_pseudo_header(h) ==
    [underflow |-> h.payload_length - 40 < 0,
     bytes |-> h.source_address \o h.destination_address
               \o <<0, 0>> \o u16_to_be_bytes((h.payload_length - 40) % U16)
               \o <<0, 0, 0, h.next_header>>]

\* IpHeader::V4(h) / IpHeader::V6(h)
IpHeader_V4(h) == [v |-> 4, h |-> h]

IpHeader_V6(h) == [v |-> 6, h |-> h]

IpHeader_inner_protocol(ip) == IF ip.v = 4 THEN ip.h.protocol ELSE ip.h.next_header

\* IpHeader::to_pseudo_header, cut to its significant length as the caller
\* does (pseudo_header_bytes[0..pseudo_header_length])
IpHeader_to_pseudo_header(ip) ==
    IF ip.v = 4 THEN Ipv4Header_to_pseudo_header(ip.h)
    ELSE Ipv6Header_to_pseudo_header(ip.h)

(***************************************************************************)
(* ethernet.rs: EthernetHeader, VlanTagHeader.  try_take returns an        *)
(* Option: None, or Some((header, rest)).                                  *)
(***************************************************************************)
ETHERTYPE_IPV4 == 2048          \* 0x0800

ETHERTYPE_VLAN_TAG == 33024     \* 0x8100

ETHERTYPE_IPV6 == 34525         \* 0x86DD

None == [tag |-> "None"]

Some(header, rest) == [tag |-> "Some", header |-> header, rest |-> rest]

\* the call does not return: an index or a slice bound is out of range
Panic == [tag |-> "Panic"]

EthernetHeader_try_take(bytes) ==
    IF Len(bytes) < 14 THEN None
    ELSE Some([destination |-> Slice(bytes, 0, 6),
               source |-> Slice(bytes, 6, 12),
               ethertype |-> u16_from_be_bytes(Slice(bytes, 12, 14))],
              SliceFrom(bytes, 14))

VlanTagHeader_try_take(bytes) ==
    IF Len(bytes) < 4 THEN None
    ELSE LET tci == u16_from_be_bytes(Slice(bytes, 0, 2))
             header == [priority_code_point |-> tci \div 8192,
                        drop_eligible_indicator |-> (tci \div 4096) % 2 = 1,
                        vlan_id |-> tci % 4096,
                        ethertype |-> u16_from_be_bytes(Slice(bytes, 2, 4))]
         IN IF Len(bytes) < 14 THEN Panic          \* &bytes[14..]
            ELSE Some(header, SliceFrom(bytes, 14))

(***************************************************************************)
(* The DNS decoder (trust_dns_proto Message::from_bytes), as far as        *)
(* collect_sample uses it: the header's QR bit and question count, and the *)
(* questions (uncompressed names).  What follows the questions is not      *)
(* looked at.                                                              *)
(***************************************************************************)
\* the name at zero-based offset pos: its labels and the offset behind it
RECURSIVE Dns_read_name(_, _, _)
Dns_read_name(bytes, pos, labels) ==
    IF pos >= Len(bytes) THEN [ok |-> FALSE]
    ELSE LET n == bytes[pos + 1]
         IN IF n = 0 THEN [ok |-> TRUE, labels |-> labels, next |-> pos + 1]
            ELSE IF n > 63 \/ pos + 1 + n > Len(bytes) THEN [ok |-> FALSE]
            ELSE Dns_read_name(bytes, pos + 1 + n,
                               Append(labels, Slice(bytes, pos + 1, pos + 1 + n)))

RECURSIVE Dns_read_queries(_, _, _, _)
Dns_read_queries(bytes, pos, count, queries) ==
    IF count = 0 THEN [ok |-> TRUE, queries |-> queries]
    ELSE LET name == Dns_read_name(bytes, pos, <<>>)
         IN IF ~name.ok THEN [ok |-> FALSE]
            ELSE IF name.next + 4 > Len(bytes) THEN [ok |-> FALSE]
            ELSE Dns_read_queries(bytes, name.next + 4, count - 1,
                    Append(queries,
                           [query_type |-> u16_from_be_bytes(
                                              Slice(bytes, name.next, name.next + 2)),
                            name |-> name.labels]))

Message_from_bytes(bytes) ==
    IF Len(bytes) < 12 THEN [ok |-> FALSE]
    ELSE LET qs == Dns_read_queries(bytes, 12,
                                    u16_from_be_bytes(Slice(bytes, 4, 6)), <<>>)
         IN IF ~qs.ok THEN [ok |-> FALSE]
            ELSE [ok |-> TRUE,
                  message_type |-> IF bytes[3] >= 128 THEN "Response" ELSE "Query",
                  queries |-> qs.queries]

(***************************************************************************)
(* stats.rs: PerSourceStats, DnsStats                                      *)
(*                                                                         *)
(* A HashMap is a function whose domain is the set of its keys.  A Name is *)
(* the sequence of its labels, each label a sequence of bytes (what        *)
(* name.iter() yields); a String is the sequence of its UTF-8 bytes.       *)
(***************************************************************************)
HashMap_new == [k \in {} |-> 0]

\* *map.entry(k).or_insert(d) = v
HashMap_put(map, k, v) == [x \in (DOMAIN map) \cup {k} |-> IF x = k THEN v ELSE map[x]]

\* map.entry(k).or_insert(d)
HashMap_entry_or(map, k, d) == IF k \in DOMAIN map THEN map[k] ELSE d

PerSourceStats_new == [count |-> 0, type_to_count |-> HashMap_new]

DnsStats_new ==
    [total_count |-> 0, source_to_stats |-> HashMap_new, top_level_domains |-> <<>>]

IsCont(b) == b >= 128 /\ b <= 191

\* std String::from_utf8: whether bytes, from index i on, are well-formed UTF-8
RECURSIVE Utf8ValidFrom(_, _)
Utf8ValidFrom(bs, i) ==
    LET n == Len(bs)
        b0 == bs[i]
        cont(j) == j <= n /\ IsCont(bs[j])
    IN IF i > n THEN TRUE
       ELSE IF b0 < 128 THEN Utf8ValidFrom(bs, i + 1)
       ELSE IF b0 >= 194 /\ b0 <= 223
            THEN cont(i + 1) /\ Utf8ValidFrom(bs, i + 2)
       ELSE IF b0 >= 224 /\ b0 <= 239
            THEN /\ cont(i + 1) /\ cont(i + 2)
                 /\ (b0 = 224 => bs[i + 1] >= 160)
                 /\ (b0 = 237 => bs[i + 1] <= 159)
                 /\ Utf8ValidFrom(bs, i + 3)
       ELSE IF b0 >= 240 /\ b0 <= 244
            THEN /\ cont(i + 1) /\ cont(i + 2) /\ cont(i + 3)
                 /\ (b0 = 240 => bs[i + 1] >= 144)
                 /\ (b0 = 244 => bs[i + 1] <= 143)
                 /\ Utf8ValidFrom(bs, i + 4)
       ELSE FALSE

\* String::from_utf8(Vec::from(label)): Ok(the string) or Err
String_from_utf8(bs) ==
    IF Utf8ValidFrom(bs, 1) THEN [ok |-> TRUE, value |-> bs] ELSE [ok |-> FALSE]

\* the counting part of add_query (stats.rs 39-48)
\* add_query_counts without line 44 (per_source_stats.count += 1)
add_query_counts_no_source_count(stats, source, record_type) ==
    LET per_source_stats == HashMap_entry_or(stats.source_to_stats, source, PerSourceStats_new)
        per_type_count == HashMap_entry_or(per_source_stats.type_to_count, record_type, 0)
        updated == [count |-> per_source_stats.count,
                    type_to_count |-> HashMap_put(per_source_stats.type_to_count,
                                                  record_type, per_type_count + 1)]
    IN [stats EXCEPT !.total_count = stats.total_count + 1,
                     !.source_to_stats = HashMap_put(stats.source_to_stats, source, updated)]

add_query_counts(stats, source, record_type) ==
    LET per_source_stats == HashMap_entry_or(stats.source_to_stats, source, PerSourceStats_new)
        per_type_count == HashMap_entry_or(per_source_stats.type_to_count, record_type, 0)
        updated == [count |-> per_source_stats.count + 1,
                    type_to_count |-> HashMap_put(per_source_stats.type_to_count,
                                                  record_type, per_type_count + 1)]
    IN [stats EXCEPT !.total_count = stats.total_count + 1,
                     !.source_to_stats = HashMap_put(stats.source_to_stats, source, updated)]

\* add_query_tld with `name_parts.len() >= 1` for the test of line 51
add_query_tld_first_label(stats, timestamp, source, record_type, name) ==
    LET name_parts == name
    IN IF Len(name_parts) >= 1
       THEN LET tld == String_from_utf8(name_parts[1])
            IN IF tld.ok
               THEN [stats EXCEPT !.top_level_domains =
                        Append(stats.top_level_domains,
                               <<timestamp, source, record_type, tld.value>>)]
               ELSE stats
       ELSE stats

\* the top-level-domain part of add_query (stats.rs 50-56)
add_query_tld(stats, timestamp, source, record_type, name) ==
    LET name_parts == name
    IN IF Len(name_parts) = 1
       THEN LET tld == String_from_utf8(name_parts[1])
            IN IF tld.ok
               THEN [stats EXCEPT !.top_level_domains =
                        Append(stats.top_level_domains,
                               <<timestamp, source, record_type, tld.value>>)]
               ELSE stats
       ELSE stats

\* DnsStats::add_query
add_query(stats, timestamp, source, record_type, name) ==
    add_query_tld(add_query_counts(stats, source, record_type),
                  timestamp, source, record_type, name)

(***************************************************************************)
(* sampling.rs: one iteration of the consumer loop of collect_sample       *)
(* (lines 93-207) on one packet, as the outcome it has:                    *)
(*   rejected  a stage did not return Success: warn!, continue             *)
(*   ignored   a DNS message that is not a query: continue                 *)
(*   accepted  a DNS query message: add_query for each of its questions    *)
(*   panicked  the iteration panics: collect_sample unwinds                *)
(* A packet is [ts |-> [tv_sec, tv_usec], data |-> bytes].                 *)
(***************************************************************************)
Rejected(stage) == [kind |-> "rejected", stage |-> stage]

Panicked(stage) == [kind |-> "panicked", stage |-> stage]

Continue(rest) == [kind |-> "continue", rest |-> rest]

\* lines 95-134: the bytes of the IP packet
consumer_ip_bytes(data) ==
    LET eth == EthernetHeader_try_take(data)
    IN IF eth.tag # "Some" THEN Rejected("ethernet")
       ELSE IF eth.header.ethertype = ETHERTYPE_VLAN_TAG
       THEN LET tag == VlanTagHeader_try_take(eth.rest)
            IN IF tag.tag = "Panic" THEN Panicked("vlan_tag")
               ELSE IF tag.tag # "Some" THEN Rejected("vlan_tag")
               ELSE LET inner == EthernetHeader_try_take(tag.rest)
                    IN IF inner.tag # "Some" THEN Rejected("inner_ethernet")
                       ELSE IF /\ inner.header.ethertype # ETHERTYPE_IPV4
                               /\ inner.header.ethertype # ETHERTYPE_IPV6
                            THEN Rejected("inner_ethertype")
                       ELSE Continue(inner.rest)
       ELSE IF eth.header.ethertype \in {ETHERTYPE_IPV4, ETHERTYPE_IPV6}
       THEN Continue(eth.rest)
       ELSE Rejected("ethertype")

\* lines 136-165: the IP header and what follows it
consumer_ip_header(ip_bytes) ==
    IF Len(ip_bytes) < 1 THEN Rejected("ip_peek")
    ELSE LET ip_version == ip_bytes[1] \div 16
         IN IF ip_version = 4
            THEN LET d == Ipv4Header_try_take(ip_bytes)
                 IN IF d.tag # "Success" THEN Rejected("ipv4")
                    ELSE [kind |-> "continue", ip_header |-> IpHeader_V4(d.header),
                          rest |-> d.rest]
            ELSE IF ip_version = 6
            THEN LET d == Ipv6Header_try_take(ip_bytes)
                 IN IF d.tag # "Success" THEN Rejected("ipv6")
                    ELSE [kind |-> "continue", ip_header |-> IpHeader_V6(d.header),
                          rest |-> d.rest]
            ELSE Rejected("ip_version")

\* lines 167-180: the UDP payload; `checked` says whether the build panics
\* on integer overflow
consumer_udp_payload(ip_header, rest, checked) ==
    IF IpHeader_inner_protocol(ip_header) # PROTO_UDP THEN Rejected("protocol")
    ELSE LET pseudo == IpHeader_to_pseudo_header(ip_header)
         IN IF pseudo.underflow /\ checked THEN Panicked("pseudo_header")
            ELSE LET d == UdpHeader_try_take(rest, pseudo.bytes)
                 IN IF d.tag # "Success" THEN Rejected("udp")
                    ELSE Continue(d.rest)

\* lines 182-206: the DNS message and the add_query calls it leads to
\* consumer_dns without the test of the message type (lines 197-199)
consumer_dns_any_message(ts, ip_header, payload) ==
    LET dns == Message_from_bytes(payload)
        timestamp == <<ts.tv_sec, ts.tv_usec * 1000>>
    IN IF ~dns.ok THEN Rejected("dns")
       ELSE [kind |-> "accepted",
             timestamp |-> timestamp,
             source |-> ip_header.h.source_address,
             queries |-> dns.queries]

consumer_dns(ts, ip_header, payload) ==
    LET dns == Message_from_bytes(payload)
        timestamp == <<ts.tv_sec, ts.tv_usec * 1000>>
    IN IF ~dns.ok THEN Rejected("dns")
       ELSE IF dns.message_type # "Query" THEN [kind |-> "ignored"]
       ELSE [kind |-> "accepted",
             timestamp |-> timestamp,
             source |-> ip_header.h.source_address,
             queries |-> dns.queries]

consumer_iteration(packet, checked) ==
    LET l2 == consumer_ip_bytes(packet.data)
    IN IF l2.kind # "continue" THEN l2
       ELSE LET l3 == consumer_ip_header(l2.rest)
            IN IF l3.kind # "continue" THEN l3
               ELSE LET l4 == consumer_udp_payload(l3.ip_header, l3.rest, checked)
                    IN IF l4.kind # "continue" THEN l4
                       ELSE consumer_dns(packet.ts, l3.ip_header, l4.rest)

\* the loop `for query in dns.queries() { statistics.add_query(..) }`
RECURSIVE add_queries(_, _, _, _)
add_queries(stats, timestamp, source, queries) ==
    IF queries = <<>> THEN stats
    ELSE add_queries(add_query(stats, timestamp, source,
                               queries[1].query_type, queries[1].name),
                     timestamp, source, Tail(queries))

(***************************************************************************)
(* Inputs of the checks of the pure functions                              *)
(***************************************************************************)
\* the sequences over S of length lo..hi
SeqsOf(S, lo, hi) == UNION {[1..n -> S] : n \in lo..hi}

\* the pipeline before collect_sample is called
PipeIdle ==
    /\ pcP = "idle" /\ pcC = "idle"
    /\ elapsed = 0 /\ sample_duration = 0 /\ buffer_size = 1
    /\ queue = <<>> /\ rx_open = TRUE /\ in_hand = <<>>
    /\ captured = <<>> /\ received = <<>> /\ lost = <<>>
    /\ capture_error = FALSE
    /\ logged = [warn |-> 0, error |-> 0]
    /\ result = [tag |-> "none"]
    /\ overflow_checks = FALSE

StatsIdle == statistics = DnsStats_new /\ calls = <<>>

FnIdle == inp = [kind |-> "none"] /\ out = [done |-> FALSE]

\* ---- ones_complement_add ------------------------------------------------
\* 16-bit operands around the places where the carry appears
AddSamples == (0..15) \cup (4100..4110) \cup (32760..32775)
              \cup (61435..61445) \cup (65520..65535)

InitAdd ==
    /\ PipeIdle /\ StatsIdle
    /\ inp \in [kind : {"add"}, a : AddSamples, b : AddSamples]
    /\ out = [done |-> FALSE]

ApplyAdd ==
    /\ inp.kind = "add" /\ ~out.done
    /\ out' = [done |-> TRUE,
               value |-> ones_complement_add(inp.a, inp.b),
               overflowed |-> ones_complement_add_overflows(inp.a, inp.b)]
    /\ UNCHANGED <<pipeVars, statistics, calls, inp>>

SpecAdd == InitAdd /\ [][ApplyAdd]_vars

\* ---- internet_checksum --------------------------------------------------
ByteSamples == {0, 1, 127, 128, 254, 255}

MaxBufLen == 5

\* bytes with the 16-bit field at offset `field` set to w
WithField(bytes, field, w) ==
    [i \in 1..Len(bytes) |->
        IF i = field + 1 THEN w \div 256
        ELSE IF i = field + 2 THEN w % 256
        ELSE bytes[i]]

\* buffers with a word-aligned checksum field inside them
InitChecksum ==
    /\ PipeIdle /\ StatsIdle
    /\ \E b \in SeqsOf(ByteSamples, 2, MaxBufLen) :
       \E f \in {x \in 0..(Len(b) - 2) : x % 2 = 0} :
          inp = [kind |-> "checksum", buf |-> WithField(b, f, 0), field |-> f]
    /\ out = [done |-> FALSE]

\* the sender fills the field in with internet_checksum of the buffer with
\* the field zeroed; the receiver runs internet_checksum over the result
FillAndVerify ==
    /\ inp.kind = "checksum" /\ ~out.done
    /\ LET field_value == internet_checksum(inp.buf)
           b == WithField(inp.buf, inp.field, field_value)
       IN out' = [done |-> TRUE,
                  b |-> b,
                  rest_sum |-> checksum_loop(inp.buf, 1, 0),
                  verify |-> internet_checksum(b)]
    /\ UNCHANGED <<pipeVars, statistics, calls, inp>>

SpecChecksum == InitChecksum /\ [][FillAndVerify]_vars

\* ---- Ipv4Header / UdpHeader round trip ----------------------------------
\* RFC 1071: the ones'-complement sum of the big-endian 16-bit words of
\* bytes (an odd trailing byte padded with zero), as the residue of the
\* plain sum: 0 only when every word is 0, otherwise in 1..0xFFFF
WordsSum(bytes) ==
    LET RECURSIVE go(_)
        go(i) == IF i > Len(bytes) THEN 0
                 ELSE bytes[i] * 256
                      + (IF i + 1 <= Len(bytes) THEN bytes[i + 1] ELSE 0)
                      + go(i + 2)
    IN go(1)

Rfc1071Sum(bytes) ==
    IF WordsSum(bytes) = 0 THEN 0 ELSE ((WordsSum(bytes) - 1) % 65535) + 1

\* RFC 768: the complement of the sum; a computed 0 is transmitted as 0xFFFF
Rfc768Checksum(bytes) ==
    IF 65535 - Rfc1071Sum(bytes) = 0 THEN 65535 ELSE 65535 - Rfc1071Sum(bytes)

\* a sender's IPv4 header (RFC 791 layout) in front of l4_len bytes
MkIpv4Header(src, dst, protocol, options, l4_len) ==
    LET opt_bytes == IF options = <<>> THEN <<>>
                     ELSE options[1] \o (IF Len(options) > 1 THEN options[2] ELSE <<>>)
        ihl == 5 + Len(options)
        zeroed == <<64 + ihl, 0>> \o u16_to_be_bytes(20 + 4 * Len(options) + l4_len)
                  \o <<0, 0, 0, 0, 64, protocol, 0, 0>> \o src \o dst \o opt_bytes
    IN WithField(zeroed, 10, 65535 - Rfc1071Sum(zeroed))

\* a sender's UDP datagram (RFC 768 layout), its checksum computed over
\* pseudo_header followed by the datagram
MkUdpDatagram(pseudo_header, source_port, destination_port, payload) ==
    LET zeroed == u16_to_be_bytes(source_port) \o u16_to_be_bytes(destination_port)
                  \o u16_to_be_bytes(8 + Len(payload)) \o <<0, 0>> \o payload
    IN WithField(zeroed, 6, Rfc768Checksum(pseudo_header \o zeroed))

AddrSamples == {<<10, 0, 0, 1>>, <<255, 255, 255, 255>>}

OptionSamples == {<<>>, <<<<1, 1, 1, 0>>>>}

PayloadSamples == {0, 1, 128, 255}

MaxPayload == 3

InitUdp ==
    /\ PipeIdle /\ StatsIdle
    /\ \E src \in AddrSamples, opts \in OptionSamples,
          payload \in SeqsOf(PayloadSamples, 1, MaxPayload) :
       \E at \in 1..Len(payload), bit \in 0..7 :
          inp = [kind |-> "udp", src |-> src, dst |-> <<10, 0, 0, 2>>,
                 options |-> opts, payload |-> payload, at |-> at, bit |-> bit]
    /\ out = [done |-> FALSE]

\* The IPv4 header is parsed, its pseudo-header derived, the datagram built
\* over that pseudo-header, and the datagram (as sent, and with one payload
\* bit flipped) handed to UdpHeader::try_take as collect_sample does.
ParseUdp ==
    /\ inp.kind = "udp" /\ ~out.done
    /\ \E ip_bytes \in {MkIpv4Header(inp.src, inp.dst, PROTO_UDP, inp.options,
                                     8 + Len(inp.payload))} :
       \E pseudo \in {Ipv4Header_to_pseudo_header(Ipv4Header_try_take(ip_bytes).header)} :
       \E datagram \in {MkUdpDatagram(pseudo.bytes, 1024, 53, inp.payload)} :
       \E packet \in {Ipv4Header_try_take(ip_bytes \o datagram)} :
          LET flipped == [datagram EXCEPT
                            ![8 + inp.at] = FlipBit(datagram[8 + inp.at], inp.bit)]
          IN out' = [done |-> TRUE,
                     ip |-> packet.tag,
                     underflow |-> pseudo.underflow,
                     datagram |-> datagram,
                     parsed |-> UdpHeader_try_take(packet.rest, pseudo.bytes),
                     parsed_flipped |-> UdpHeader_try_take(flipped, pseudo.bytes)]
    /\ UNCHANGED <<pipeVars, statistics, calls, inp>>

SpecUdp == InitUdp /\ [][ParseUdp]_vars

\* ---- DnsStats::add_query ------------------------------------------------
SourceSamples == {"10.0.0.1", "fe80::1"}

RecordTypeSamples == {"A", "AAAA"}

TimestampSamples == {1, 2}

\* the root name, "a", a label that is not UTF-8 (0xFF), "a.b"
NameSamples == {<<>>, <<<<97>>>>, <<<<255>>>>, <<<<97>>, <<98>>>>}

MaxCalls == 3

InitStats ==
    /\ PipeIdle /\ FnIdle
    /\ statistics = DnsStats_new
    /\ calls = <<>>

AddQuery ==
    /\ Len(calls) < MaxCalls
    /\ \E timestamp \in TimestampSamples, source \in SourceSamples,
          record_type \in RecordTypeSamples, name \in NameSamples :
          /\ statistics' = add_query(statistics, timestamp, source, record_type, name)
          /\ calls' = Append(calls, [timestamp |-> timestamp, source |-> source,
                                     record_type |-> record_type, name |-> name])
    /\ UNCHANGED <<pipeVars, inp, out>>

SpecStats == InitStats /\ [][AddQuery]_vars

(***************************************************************************)
(* Properties of the checksum engine                                       *)
(***************************************************************************)
\* C9: for all 16-bit a and b, ones_complement_add(a, b) is a+b when
\* a+b <= 0xFFFF and (a+b) - 0x10000 + 1 otherwise, and the `sum += 1` that
\* adds the end-around carry never leaves the 16-bit range.
C9_EndAroundCarry ==
    (inp.kind = "add" /\ out.done) =>
        /\ out.value = IF inp.a + inp.b <= 65535
                       THEN inp.a + inp.b
                       ELSE (inp.a + inp.b) - 65536 + 1
        /\ ~out.overflowed

\* 0xF000 + 0x1009 = 0x000A
C9_Witness ==
    /\ inp.kind = "add" /\ out.done
    /\ inp.a = 61440 /\ inp.b = 4105 /\ out.value = 10

\* C8: a buffer whose (word-aligned) 16-bit checksum field holds
\* internet_checksum of the buffer with that field zeroed has
\* internet_checksum exactly 0xFFFF.
C8_FilledChecksumVerifies ==
    (inp.kind = "checksum" /\ out.done) => out.verify = 65535

\* an odd-length buffer whose other words sum to 0xFFFF
C8_Witness ==
    /\ inp.kind = "checksum" /\ out.done
    /\ Len(out.b) % 2 = 1
    /\ out.rest_sum = 65535
    /\ out.verify = 65535

(***************************************************************************)
(* Properties of the UDP parser                                            *)
(***************************************************************************)
\* C10: for a well-formed IPv4/UDP packet whose UDP checksum is correctly
\* computed over the pseudo-header of Ipv4Header::to_pseudo_header followed
\* by the datagram, UdpHeader::try_take returns Success with rest equal to
\* the bytes after the 8-byte UDP header, and with any single payload bit
\* flipped it returns IncorrectChecksum.
C10_UdpRoundTrip ==
    (inp.kind = "udp" /\ out.done) =>
        /\ out.ip = "Success" /\ ~out.underflow
        /\ out.parsed.tag = "Success"
        /\ out.parsed.rest = inp.payload
        /\ out.parsed.rest = SliceFrom(out.datagram, 8)
        /\ out.parsed_flipped.tag = "IncorrectChecksum"

\* an odd-length payload behind a header with an option word, the top bit
\* of the last payload byte flipped
C10_Witness ==
    /\ inp.kind = "udp" /\ out.done
    /\ Len(inp.payload) = 3 /\ Len(inp.options) = 1
    /\ inp.at = 3 /\ inp.bit = 7
    /\ out.parsed.tag = "Success"
    /\ out.parsed_flipped.tag = "IncorrectChecksum"

(***************************************************************************)
(* Properties of the statistics aggregator                                 *)
(***************************************************************************)
\* the sum of the values of a map
MapSum(map) ==
    LET RECURSIVE go(_)
        go(keys) == IF keys = {} THEN 0
                    ELSE LET k == CHOOSE x \in keys : TRUE
                         IN map[k] + go(keys \ {k})
    IN go(DOMAIN map)

CountsOf(stats) == [src \in DOMAIN stats.source_to_stats |-> stats.source_to_stats[src].count]

StatsCountsConsistent(stats, n_calls) ==
    /\ stats.total_count = n_calls
    /\ stats.total_count = MapSum(CountsOf(stats))
    /\ \A src \in DOMAIN stats.source_to_stats :
          stats.source_to_stats[src].count = MapSum(stats.source_to_stats[src].type_to_count)

\* no counter of `before` is lower, and no entry of it missing, in `after`
StatsGrew(before, after) ==
    /\ after.total_count >= before.total_count
    /\ DOMAIN before.source_to_stats \subseteq DOMAIN after.source_to_stats
    /\ \A src \in DOMAIN before.source_to_stats :
          LET b == before.source_to_stats[src]
              a == after.source_to_stats[src]
          IN /\ a.count >= b.count
             /\ DOMAIN b.type_to_count \subseteq DOMAIN a.type_to_count
             /\ \A t \in DOMAIN b.type_to_count : a.type_to_count[t] >= b.type_to_count[t]

\* C6: after any sequence of add_query calls on a fresh DnsStats,
\* total_count is the number of calls and the sum of the per-source counts,
\* every source's count is the sum of its type_to_count values, no counter
\* ever decreases and no source or record-type entry is ever removed.
C6_CountersConsistentAndMonotonic ==
    /\ [](StatsCountsConsistent(statistics, Len(calls)))
    /\ [][StatsGrew(statistics, statistics')]_vars

\* three calls, two sources, one of them seen with two record types
C6_Witness ==
    /\ Len(calls) = 3
    /\ statistics.total_count = 3
    /\ Cardinality(DOMAIN statistics.source_to_stats) = 2
    /\ \E src \in DOMAIN statistics.source_to_stats :
          /\ statistics.source_to_stats[src].count = 2
          /\ Cardinality(DOMAIN statistics.source_to_stats[src].type_to_count) = 2

IsPrefix(s, t) == Len(s) <= Len(t) /\ SubSeq(t, 1, Len(s)) = s

\* whether call c is one that is to be logged: its name has exactly one
\* label and, when utf8_only, that label is valid UTF-8
IsLogged(c, utf8_only) ==
    /\ Len(c.name) = 1
    /\ utf8_only => String_from_utf8(c.name[1]).ok

\* the log entries the calls in cs give rise to, in call order
RECURSIVE EntriesOf(_, _)
EntriesOf(cs, utf8_only) ==
    IF cs = <<>> THEN <<>>
    ELSE LET c == cs[Len(cs)]
         IN EntriesOf(SubSeq(cs, 1, Len(cs) - 1), utf8_only)
            \o (IF IsLogged(c, utf8_only)
                THEN <<<<c.timestamp, c.source, c.record_type, c.name[1]>>>>
                ELSE <<>>)

\* C7 as stated: top_level_domains holds exactly one entry for every call
\* whose name has exactly one label, none for any other call, in call order.
C7_EveryOneLabelNameLogged ==
    statistics.top_level_domains = EntriesOf(calls, FALSE)

\* C7 as amended: top_level_domains holds exactly one entry (timestamp,
\* source, record_type, label) for every call whose name has exactly one
\* label that is valid UTF-8, none for any other call, in call order;
\* existing entries are never modified or removed.
C7_OneLabelUtf8NamesLogged ==
    /\ [](statistics.top_level_domains = EntriesOf(calls, TRUE))
    /\ [][IsPrefix(statistics.top_level_domains, statistics'.top_level_domains)]_vars

\* three calls: a two-label name, a one-label name that is logged, and a
\* one-label name that is not UTF-8 and is not logged
C7_Witness ==
    /\ Len(calls) = 3
    /\ Len(calls[1].name) = 2
    /\ calls[2].name = <<<<97>>>>
    /\ calls[3].name = <<<<255>>>>
    /\ Len(statistics.top_level_domains) = 1
    /\ statistics.top_level_domains[1][4] = <<97>>

(***************************************************************************)
(* The frames the capture source hands out                                 *)
(***************************************************************************)
MkEthernet(ethertype, payload) ==
    <<2, 0, 0, 0, 0, 2>> \o <<2, 0, 0, 0, 0, 1>> \o u16_to_be_bytes(ethertype) \o payload

RECURSIVE MkDnsName(_)
MkDnsName(labels) ==
    IF labels = <<>> THEN <<0>>
    ELSE <<Len(labels[1])>> \o labels[1] \o MkDnsName(Tail(labels))

RECURSIVE MkDnsQuestions(_)
MkDnsQuestions(questions) ==
    IF questions = <<>> THEN <<>>
    ELSE MkDnsName(questions[1].name) \o u16_to_be_bytes(questions[1].query_type)
         \o <<0, 1>> \o MkDnsQuestions(Tail(questions))

\* a DNS message (RFC 1035 4.1) that carries questions only
MkDns(is_response, questions) ==
    <<0, 1, IF is_response THEN 129 ELSE 1, 0>> \o u16_to_be_bytes(Len(questions))
    \o <<0, 0, 0, 0, 0, 0>> \o MkDnsQuestions(questions)

\* RFC 768: the pseudo-header a sender of UDP over IPv4 sums
Rfc768PseudoHeader(src, dst, udp_length) ==
    src \o dst \o <<0, PROTO_UDP>> \o u16_to_be_bytes(udp_length)

\* RFC 8200 8.1: the pseudo-header a sender of UDP over IPv6 sums
Rfc8200PseudoHeader(src, dst, udp_length) ==
    src \o dst \o <<0, 0>> \o u16_to_be_bytes(udp_length) \o <<0, 0, 0, PROTO_UDP>>

MkIpv4Udp(src, dst, payload) ==
    MkIpv4Header(src, dst, PROTO_UDP, <<>>, 8 + Len(payload))
    \o MkUdpDatagram(Rfc768PseudoHeader(src, dst, 8 + Len(payload)), 1024, 53, payload)

MkIpv6Udp(src, dst, payload) ==
    <<96, 0, 0, 0>> \o u16_to_be_bytes(8 + Len(payload)) \o <<PROTO_UDP, 64>>
    \o src \o dst
    \o MkUdpDatagram(Rfc8200PseudoHeader(src, dst, 8 + Len(payload)), 1024, 53, payload)

HostA == <<10, 0, 0, 1>>

HostB == <<10, 0, 0, 2>>

Host6A == <<254, 128, 0, 0, 0, 0, 0, 0, 0, 0, 0, 0, 0, 0, 0, 1>>

Host6B == <<254, 128, 0, 0, 0, 0, 0, 0, 0, 0, 0, 0, 0, 0, 0, 2>>

QueryTld == MkDns(FALSE, <<[name |-> <<<<110, 101, 116>>>>, query_type |-> 1]>>)

QueryTwo == MkDns(FALSE, <<[name |-> <<<<97>>, <<98>>>>, query_type |-> 28],
                           [name |-> <<<<255>>>>, query_type |-> 1]>>)

\* one byte of `bytes` changed so that a checksum over it no longer matches
Corrupt(bytes, at) == [bytes EXCEPT ![at] = FlipBit(bytes[at], 0)]

\* the 14 bytes VlanTagHeader::try_take skips: the tag (TCI, ethertype) and
\* the ten bytes after it
VlanTag14(ethertype) == <<0, 7>> \o u16_to_be_bytes(ethertype) \o <<0, 0, 0, 0, 0, 0, 0, 0, 0, 0>>

FrameData ==
    [query_tld   |-> MkEthernet(ETHERTYPE_IPV4, MkIpv4Udp(HostA, HostB, QueryTld)),
     query_two   |-> MkEthernet(ETHERTYPE_IPV4, MkIpv4Udp(HostB, HostA, QueryTwo)),
     response    |-> MkEthernet(ETHERTYPE_IPV4,
                        MkIpv4Udp(HostB, HostA,
                           MkDns(TRUE, <<[name |-> <<<<97>>>>, query_type |-> 1]>>))),
     vlan_query  |-> MkEthernet(ETHERTYPE_VLAN_TAG,
                        VlanTag14(ETHERTYPE_IPV4)
                        \o MkEthernet(ETHERTYPE_IPV4, MkIpv4Udp(HostA, HostB, QueryTld))),
     runt        |-> <<2, 0, 0, 0, 0, 2, 2, 0, 0, 0, 0, 1, 8>>,
     vlan_runt   |-> MkEthernet(ETHERTYPE_VLAN_TAG, <<0, 7>>),
     vlan_short  |-> MkEthernet(ETHERTYPE_VLAN_TAG, <<0, 7, 8, 0>>),
     vlan_only   |-> MkEthernet(ETHERTYPE_VLAN_TAG, VlanTag14(ETHERTYPE_IPV4)),
     vlan_arp    |-> MkEthernet(ETHERTYPE_VLAN_TAG,
                        VlanTag14(2054) \o MkEthernet(2054, <<0, 1>>)),
     arp         |-> MkEthernet(2054, <<0, 1>>),
     no_ip       |-> MkEthernet(ETHERTYPE_IPV4, <<>>),
     ip_version5 |-> MkEthernet(ETHERTYPE_IPV4, <<80, 0>>),
     ipv4_bad    |-> MkEthernet(ETHERTYPE_IPV4,
                        Corrupt(MkIpv4Udp(HostA, HostB, QueryTld), 9)),
     ipv6_short  |-> MkEthernet(ETHERTYPE_IPV6, <<96, 0, 0, 0>>),
     tcp         |-> MkEthernet(ETHERTYPE_IPV4,
                        MkIpv4Header(HostA, HostB, PROTO_TCP, <<>>, 0)),
     udp_bad     |-> MkEthernet(ETHERTYPE_IPV4,
                        Corrupt(MkIpv4Udp(HostA, HostB, QueryTld), 20 + 8 + 1)),
     dns_garbage |-> MkEthernet(ETHERTYPE_IPV4, MkIpv4Udp(HostA, HostB, <<1, 2, 3>>)),
     ipv6_query  |-> MkEthernet(ETHERTYPE_IPV6, MkIpv6Udp(Host6A, Host6B, QueryTld))]

FrameIds == DOMAIN FrameData

\* the packet cap.next_packet() returns for frame f (OwnedPacket::from)
PacketOf(f) == [ts |-> [tv_sec |-> 1, tv_usec |-> 5], data |-> FrameData[f]]

\* consumer_iteration on every frame, for both settings of overflow checks
FrameOutcome ==
    [f \in FrameIds |-> [oc \in BOOLEAN |-> consumer_iteration(PacketOf(f), oc)]]

(***************************************************************************)
(* sampling.rs: collect_sample, from the creation of the channel on.       *)
(*                                                                         *)
(* The producer closure (lines 75-90) is at                                *)
(*   check      the loop test Instant::now() - start_time < sample_duration*)
(*   poll       cap.next_packet()                                          *)
(*   send       packet_sender.blocking_send(packet)                        *)
(*   exiting    the closure has ended and dropped packet_sender            *)
(*   unwinding  the closure panicked and dropped packet_sender             *)
(*   done / panicked   the task is complete (the JoinHandle is ready)      *)
(* The consumer (lines 92-213) is at                                       *)
(*   recv       packet_receiver.recv().await                               *)
(*   join       packet_handler_handle.await                                *)
(*   returned   collect_sample has returned Ok(statistics)                 *)
(*   panicked   an iteration panicked; the receiver is dropped             *)
(***************************************************************************)
\* The clock is read against the deadline only.  Time is counted in
\* sampling durations: a run either has no duration (0) or lasts one tick.
Durations == {0, 1}

MaxBuffer == 2

MaxFrames == 2

\* the timeouts that are counted where a run keeps their history
MaxTimeouts == 2

Init ==
    /\ pcP = "check" /\ pcC = "recv"
    /\ elapsed = 0
    /\ sample_duration \in Durations
    /\ buffer_size \in 1..MaxBuffer
    /\ overflow_checks \in BOOLEAN
    /\ queue = <<>> /\ rx_open = TRUE /\ in_hand = <<>>
    /\ captured = <<>> /\ received = <<>> /\ lost = <<>>
    /\ capture_error = FALSE
    /\ logged = [warn |-> 0, error |-> 0]
    /\ result = [tag |-> "none"]
    /\ StatsIdle /\ FnIdle

ProducerRunning == pcP \in {"check", "poll", "send"}

\* the sender half is dropped: the closure has ended or is unwinding
SenderDropped == pcP \in {"exiting", "unwinding", "done", "panicked"}

\* the spawn_blocking task is complete
ProducerComplete == pcP \in {"done", "panicked"}

\* the clock advances (it is followed up to the deadline)
Tick ==
    /\ ProducerRunning
    /\ elapsed < sample_duration
    /\ elapsed' = elapsed + 1
    /\ UNCHANGED <<pcP, pcC, sample_duration, buffer_size, queue, rx_open, in_hand,
                   captured, received, lost, capture_error, logged, result,
                   overflow_checks, statistics, calls, inp, out>>

\* line 77: while Instant::now() - start_time < sample_duration
ProducerCheck ==
    /\ pcP = "check"
    /\ pcP' = IF elapsed < sample_duration THEN "poll" ELSE "exiting"
    /\ UNCHANGED <<pcC, elapsed, sample_duration, buffer_size, queue, rx_open, in_hand,
                   captured, received, lost, capture_error, logged, result,
                   overflow_checks, statistics, calls, inp, out>>

\* lines 78-79: cap.next_packet() returns Ok(p)
ProducerPollOk ==
    /\ pcP = "poll"
    /\ Len(captured) < MaxFrames
    /\ \E f \in FrameIds :
          /\ captured' = Append(captured, f)
          /\ in_hand' = <<f>>
    /\ pcP' = "send"
    /\ UNCHANGED <<pcC, elapsed, sample_duration, buffer_size, queue, rx_open,
                   received, lost, capture_error, logged, result,
                   overflow_checks, statistics, calls, inp, out>>

\* a timeout that is treated like any other capture error
ProducerPollTimeout_breaks ==
    /\ pcP = "poll"
    /\ pcP' = "exiting"
    /\ out' = IF "timeouts" \in DOMAIN out /\ out.timeouts < MaxTimeouts
              THEN [out EXCEPT !.timeouts = @ + 1]
              ELSE out
    /\ UNCHANGED <<pcC, elapsed, sample_duration, buffer_size, queue, rx_open, in_hand,
                   captured, received, lost, capture_error, logged, result,
                   overflow_checks, statistics, calls, inp>>

\* line 80: Err(pcap::Error::TimeoutExpired) => continue
\* (where `out` keeps a history of the timeouts, the timeout is counted)
ProducerPollTimeout ==
    /\ pcP = "poll"
    /\ pcP' = "check"
    /\ out' = IF "timeouts" \in DOMAIN out /\ out.timeouts < MaxTimeouts
              THEN [out EXCEPT !.timeouts = @ + 1]
              ELSE out
    /\ UNCHANGED <<pcC, elapsed, sample_duration, buffer_size, queue, rx_open, in_hand,
                   captured, received, lost, capture_error, logged, result,
                   overflow_checks, statistics, calls, inp>>

\* a capture error that also throws the queued frames away
ProducerPollError_clears_queue ==
    /\ pcP = "poll"
    /\ capture_error' = TRUE
    /\ logged' = [logged EXCEPT !.error = @ + 1]
    /\ queue' = <<>>
    /\ pcP' = "exiting"
    /\ UNCHANGED <<pcC, elapsed, sample_duration, buffer_size, rx_open, in_hand,
                   captured, received, lost, result,
                   overflow_checks, statistics, calls, inp, out>>

\* lines 81-84: Err(e) => { error!(..); break; }
ProducerPollError ==
    /\ pcP = "poll"
    /\ capture_error' = TRUE
    /\ logged' = [logged EXCEPT !.error = @ + 1]
    /\ pcP' = "exiting"
    /\ UNCHANGED <<pcC, elapsed, sample_duration, buffer_size, queue, rx_open, in_hand,
                   captured, received, lost, result,
                   overflow_checks, statistics, calls, inp, out>>

\* the closure panics inside cap.next_packet(): the case lines 209-211 report
ProducerFault ==
    /\ pcP = "poll"
    /\ pcP' = "unwinding"
    /\ UNCHANGED <<pcC, elapsed, sample_duration, buffer_size, queue, rx_open, in_hand,
                   captured, received, lost, capture_error, logged, result,
                   overflow_checks, statistics, calls, inp, out>>

\* lines 86-88: blocking_send waits while the channel is full; it fails,
\* and the packet is logged and dropped, when the receiver is gone
ProducerSend ==
    /\ pcP = "send"
    /\ IF ~rx_open
       THEN /\ logged' = [logged EXCEPT !.error = @ + 1]
            /\ lost' = lost \o in_hand
            /\ UNCHANGED queue
       ELSE /\ Len(queue) < buffer_size
            /\ queue' = queue \o in_hand
            /\ UNCHANGED <<logged, lost>>
    /\ in_hand' = <<>>
    /\ pcP' = "check"
    /\ UNCHANGED <<pcC, elapsed, sample_duration, buffer_size, rx_open,
                   captured, received, capture_error, result,
                   overflow_checks, statistics, calls, inp, out>>

\* the task of the closure completes
ProducerExit ==
    /\ pcP \in {"exiting", "unwinding"}
    /\ pcP' = IF pcP = "exiting" THEN "done" ELSE "panicked"
    /\ UNCHANGED <<pcC, elapsed, sample_duration, buffer_size, queue, rx_open, in_hand,
                   captured, received, lost, capture_error, logged, result,
                   overflow_checks, statistics, calls, inp, out>>

\* the add_query calls an accepted packet leads to
CallsOf(o) ==
    [i \in 1..Len(o.queries) |->
        [timestamp |-> o.timestamp, source |-> o.source,
         record_type |-> o.queries[i].query_type, name |-> o.queries[i].name]]

\* lines 93-207: recv() returns Some(packet) and the loop body runs on it;
\* after_reject is where a rejected packet leaves the consumer
ConsumerIteration(after_reject) ==
    /\ pcC = "recv"
    /\ queue # <<>>
    /\ LET o == FrameOutcome[Head(queue)][overflow_checks]
       IN /\ received' = Append(received, Head(queue))
          /\ IF o.kind = "panicked"
             THEN /\ pcC' = "panicked"
                  /\ rx_open' = FALSE
                  /\ queue' = <<>>
                  /\ lost' = lost \o Tail(queue)
                  /\ result' = [tag |-> "panic"]
                  /\ UNCHANGED <<logged, statistics, calls>>
             ELSE /\ queue' = Tail(queue)
                  /\ pcC' = IF o.kind = "rejected" THEN after_reject ELSE "recv"
                  /\ logged' = IF o.kind = "rejected"
                               THEN [logged EXCEPT !.warn = @ + 1]
                               ELSE logged
                  /\ statistics' = IF o.kind = "accepted"
                                   THEN add_queries(statistics, o.timestamp,
                                                    o.source, o.queries)
                                   ELSE statistics
                  /\ calls' = IF o.kind = "accepted" THEN calls \o CallsOf(o) ELSE calls
                  /\ UNCHANGED <<rx_open, lost, result>>
    /\ UNCHANGED <<pcP, elapsed, sample_duration, buffer_size, in_hand,
                   captured, capture_error, overflow_checks, inp, out>>

\* a loop body that leaves the loop on a rejected packet
ConsumerRecv_break_on_reject == ConsumerIteration("join")

ConsumerRecv == ConsumerIteration("recv")

\* line 93: recv() returns None: the channel is empty and the sender dropped
ConsumerEnd ==
    /\ pcC = "recv"
    /\ queue = <<>>
    /\ SenderDropped
    /\ pcC' = "join"
    /\ UNCHANGED <<pcP, elapsed, sample_duration, buffer_size, queue, rx_open, in_hand,
                   captured, received, lost, capture_error, logged, result,
                   overflow_checks, statistics, calls, inp, out>>

\* the return of collect_sample, given whether the task's handle is ready
ReturnStatistics(handle_ready) ==
    /\ pcC = "join"
    /\ handle_ready
    /\ logged' = IF pcP \in {"unwinding", "panicked"}
                 THEN [logged EXCEPT !.error = @ + 1]
                 ELSE logged
    /\ result' = [tag |-> "Ok", statistics |-> statistics]
    /\ pcC' = "returned"
    /\ rx_open' = FALSE
    /\ UNCHANGED <<pcP, elapsed, sample_duration, buffer_size, queue, in_hand,
                   captured, received, lost, capture_error,
                   overflow_checks, statistics, calls, inp, out>>

\* a return that does not await the handle
ConsumerJoin_no_await == ReturnStatistics(TRUE)

\* lines 209-213: packet_handler_handle.await, then Ok(statistics)
ConsumerJoin == ReturnStatistics(ProducerComplete)

Producer ==
    \/ ProducerCheck
    \/ ProducerPollOk
    \/ ProducerPollTimeout
    \/ ProducerPollError
    \/ ProducerFault
    \/ ProducerSend
    \/ ProducerExit

Consumer ==
    \/ ConsumerRecv
    \/ ConsumerEnd
    \/ ConsumerJoin

Next == Tick \/ Producer \/ Consumer

Spec == Init /\ [][Next]_vars

\* Time passes, the blocking thread runs the closure, the runtime polls
\* the future of collect_sample, and a poll that can time out does not return
\* a timeout forever.
FairSpec ==
    /\ Spec
    /\ WF_vars(Tick)
    /\ WF_vars(Producer)
    /\ WF_vars(Consumer)

(***************************************************************************)
(* Properties of the capture pipeline                                      *)
(***************************************************************************)
\* C1: the queue never holds more than buffer_size frames, no frame is
\* discarded, and every frame the producer has read from the capture source
\* is, in capture order, received by the consumer, queued, or in the
\* producer's blocked send.
C1_EveryFrameDeliveredInOrder ==
    /\ Len(queue) <= buffer_size
    /\ lost = <<>>
    /\ captured = received \o queue \o in_hand

\* what C1 states, for as long as no iteration of the consumer has panicked
DeliveredWhileConsumerRuns ==
    pcC # "panicked" => C1_EveryFrameDeliveredInOrder

\* C2: a sampling run always terminates with collect_sample returning
\* statistics; with a sampling duration of 0 the producer performs no
\* capture poll and the run returns Ok with empty statistics.
C2_RunReturnsStatistics ==
    /\ <>(result.tag = "Ok")
    /\ [](sample_duration = 0 => pcP # "poll" /\ captured = <<>>)
    /\ [](sample_duration = 0 /\ result.tag = "Ok" => result.statistics = DnsStats_new)

\* the part of C2 about a sampling duration of 0
ZeroDurationReturnsEmpty ==
    /\ (sample_duration = 0) ~> (result.tag = "Ok")
    /\ [](sample_duration = 0 => pcP # "poll" /\ captured = <<>>)
    /\ [](sample_duration = 0 /\ result.tag = "Ok" => result.statistics = DnsStats_new)

\* C3: collect_sample has returned only if the producer task is complete
\* (by deadline, by capture error, or by fault), the queue is empty and no
\* captured frame is still waiting to be queued.
C3_ReturnIsJoined ==
    (pcC = "returned" \/ result.tag = "Ok") =>
        /\ pcP \in {"done", "panicked"}
        /\ queue = <<>>
        /\ in_hand = <<>>

\* a run that returned after the producer faulted with frames captured
C3_Witness ==
    /\ result.tag = "Ok"
    /\ pcP = "panicked"
    /\ Len(received) = 2

\* the consumer takes a frame from the queue and a stage rejects it
RejectingStep ==
    /\ pcC = "recv" /\ queue # <<>>
    /\ received' = Append(received, Head(queue))
    /\ FrameOutcome[Head(queue)][overflow_checks].kind = "rejected"

RejectStages ==
    {"ethernet", "vlan_tag", "inner_ethernet", "inner_ethertype", "ethertype",
     "ip_peek", "ip_version", "ipv4", "ipv6", "protocol", "udp", "dns"}

\* C4 as stated: a rejection at any stage increments a dropped-frame count
\* (a count of the state the run keeps and returns grows) and the consumer
\* continues with the next queued frame.
C4_RejectionCountedAndContinues ==
    [][RejectingStep => (statistics' # statistics /\ pcC' = "recv")]_vars

\* C4 as amended: a rejection at any stage logs one warning, leaves the
\* statistics unchanged (there is no dropped-frame count) and the consumer
\* continues with the next queued frame; no rejection aborts the pipeline.
C4_RejectionWarnsAndContinues ==
    /\ [](\A st \in RejectStages :
            \E f \in FrameIds : FrameOutcome[f][overflow_checks] = Rejected(st))
    /\ [][RejectingStep =>
            /\ logged'.warn = logged.warn + 1
            /\ logged'.error = logged.error
            /\ statistics' = statistics
            /\ queue' = Tail(queue)
            /\ pcC' = "recv"
            /\ rx_open' = rx_open
            /\ result' = result]_vars

\* a frame rejected by the UDP checksum, and the query behind it counted
C4_Witness ==
    /\ received = <<"udp_bad", "query_tld">>
    /\ logged.warn = 1
    /\ statistics.total_count = 1
    /\ pcC = "recv"

\* the statistics the consumer has after the frames fs, starting from stats
RECURSIVE StatsAfter(_, _, _)
StatsAfter(fs, stats, checked) ==
    IF fs = <<>> THEN stats
    ELSE LET o == FrameOutcome[fs[1]][checked]
         IN StatsAfter(Tail(fs),
                       IF o.kind = "accepted"
                       THEN add_queries(stats, o.timestamp, o.source, o.queries)
                       ELSE stats,
                       checked)

RECURSIVE TcpOptions(_, _, _)
TcpOptions(bytes, data_offset_bytes, i) ==
    IF 20 + (i * 4) < data_offset_bytes
    THEN <<Slice(bytes, 20 + (i * 4), 20 + (i * 4) + 4)>>
         \o TcpOptions(bytes, data_offset_bytes, i + 1)
    ELSE <<>>

\* every bit of the flags byte is a declared flag: from_bits(..) is Some
TcpHeader_try_take(bytes, pseudo_header) ==
    IF Len(bytes) < 20 THEN TooShort
    ELSE LET data_offset_w32 == bytes[13] \div 16       \* (bytes[12] & 0xF0) >> 4
             data_offset_bytes == data_offset_w32 * 4
         IN IF data_offset_bytes < 20 THEN TooShort
            ELSE IF Len(bytes) < data_offset_bytes THEN TooShort
            ELSE IF internet_checksum(pseudo_header \o bytes) # 65535
                 THEN IncorrectChecksum
            ELSE Success(
                   [source_port |-> u16_from_be_bytes(Slice(bytes, 0, 2)),
                    destination_port |-> u16_from_be_bytes(Slice(bytes, 2, 4)),
                    sequence_number |-> Slice(bytes, 4, 8),
                    acknowledgement_number |-> Slice(bytes, 8, 12),
                    flags |-> bytes[14],
                    window |-> u16_from_be_bytes(Slice(bytes, 14, 16)),
                    checksum |-> u16_from_be_bytes(Slice(bytes, 16, 18)),
                    urgent_pointer |-> u16_from_be_bytes(Slice(bytes, 18, 20)),
                    options |-> TcpOptions(bytes, data_offset_bytes, 0)],
                   SliceFrom(bytes, data_offset_bytes))

\* the width in bytes of the types TryFromBytes is implemented for
AddrWidth == [Ipv4Addr |-> 4, Ipv6Addr |-> 16, MacAddr6 |-> 6]

\* TryFromBytes::try_from_bytes: `bytes[0..w]` is taken before try_into, and
\* panics when the slice is shorter than w; the w-byte slice always converts
TryFromBytes_try_from_bytes(type, bytes) ==
    IF Len(bytes) < AddrWidth[type] THEN Panic
    ELSE [tag |-> "Some", value |-> Slice(bytes, 0, AddrWidth[type])]

(***************************************************************************)
(* The parsers on their own: one call of one parser on one buffer          *)
(***************************************************************************)
Fill(b, n) == [i \in 1..n |-> b]

SetByte(bytes, at, v) == [bytes EXCEPT ![at] = v]

\* an IPv4 packet with one option word in its header
Ipv4WithOption ==
    MkIpv4Header(HostA, HostB, PROTO_UDP, <<<<1, 1, 1, 0>>>>, 8)
    \o <<4, 0, 0, 53, 0, 8, 0, 0>>

\* first bytes of an IP packet: version 4 with header lengths 0, 4, 5, 6 and
\* 15 words, and versions 0, 6 and 15
FirstByteSamples == {64, 68, 69, 70, 79, 5, 101, 245}

\* buffers the parsers are called on: well-formed packets, the same with a
\* changed first byte or a flipped bit inside or behind the header, and
\* constant fills; each cut to every length from 0 up
ParserBases ==
    {SetByte(MkIpv4Udp(HostA, HostB, QueryTld), 1, v) : v \in FirstByteSamples}
    \cup {SetByte(Ipv4WithOption, 1, v) : v \in {70, 69, 102}}
    \cup {Corrupt(MkIpv4Udp(HostA, HostB, QueryTld), at) : at \in {9, 20, 25}}
    \cup {Corrupt(Ipv4WithOption, at) : at \in {22, 25}}
    \cup {MkIpv6Udp(Host6A, Host6B, QueryTld), FrameData.query_tld,
          Fill(0, 60), Fill(255, 60)}

ParserBuffers == UNION {{Slice(b, 0, n) : n \in 0..Len(b)} : b \in ParserBases}

Parsers == {"ethernet", "vlan_tag", "ipv4", "ipv6", "tcp", "udp"}

\* the minimum size each parser tests for
ParserMinSize ==
    [ethernet |-> 14, vlan_tag |-> 4, ipv4 |-> 20, ipv6 |-> 40, tcp |-> 20, udp |-> 8]

InitParsers ==
    /\ PipeIdle /\ StatsIdle
    /\ \E p \in Parsers \cup DOMAIN AddrWidth, b \in ParserBuffers :
          inp = [kind |-> "parse", parser |-> p, bytes |-> b,
                 pseudo_header |-> Rfc768PseudoHeader(HostA, HostB, Len(b))]
    /\ out = [done |-> FALSE]

CallParser(p, bytes, pseudo_header) ==
    CASE p = "ethernet" -> EthernetHeader_try_take(bytes)
      [] p = "vlan_tag" -> VlanTagHeader_try_take(bytes)
      [] p = "ipv4"     -> Ipv4Header_try_take(bytes)
      [] p = "ipv6"     -> Ipv6Header_try_take(bytes)
      [] p = "tcp"      -> TcpHeader_try_take(bytes, pseudo_header)
      [] p = "udp"      -> UdpHeader_try_take(bytes, pseudo_header)
      [] OTHER          -> TryFromBytes_try_from_bytes(p, bytes)

ApplyParser ==
    /\ inp.kind = "parse" /\ ~out.done
    /\ out' = [done |-> TRUE, value |-> CallParser(inp.parser, inp.bytes, inp.pseudo_header)]
    /\ UNCHANGED <<pipeVars, statistics, calls, inp>>

SpecParsers == InitParsers /\ [][ApplyParser]_vars

\* a layer parser has been called on a buffer below its minimum size
ShortBufferParsed ==
    /\ out.done /\ inp.parser \in Parsers
    /\ Len(inp.bytes) < ParserMinSize[inp.parser]

\* C11: every layer parser, on every buffer shorter than its minimum size
\* (the empty buffer included), returns TooShort; it does not panic.
C11_ShortBufferIsTooShort ==
    ShortBufferParsed => out.value = TooShort

\* what holds of the code: on a short buffer no parser panics, the IPv4,
\* IPv6, TCP and UDP parsers return TooShort, the Ethernet and VLAN tag
\* parsers return None
ShortBufferIsRefused ==
    ShortBufferParsed =>
        IF inp.parser \in {"ethernet", "vlan_tag"}
        THEN out.value = None
        ELSE out.value = TooShort

\* Ipv4Header::try_take has been called on a buffer with a first byte
Ipv4Parsed == out.done /\ inp.parser = "ipv4" /\ inp.bytes # <<>>

\* C12 as stated: Ipv4Header::try_take on any buffer whose first byte's high
\* nibble is not 4 returns WrongType, whatever its length and other bytes.
C12_WrongVersionIsWrongType ==
    (Ipv4Parsed /\ inp.bytes[1] \div 16 # 4) => out.value = WrongType

\* C12 as amended: on any buffer of at least 20 bytes whose first byte's
\* high nibble is not 4 the result is WrongType, whatever the other bytes;
\* on a buffer of fewer than 20 bytes it is TooShort, whatever the nibble.
C12_WrongVersionOfFullHeader ==
    (Ipv4Parsed /\ inp.bytes[1] \div 16 # 4) =>
        out.value = (IF Len(inp.bytes) >= 20 THEN WrongType ELSE TooShort)

\* a well-formed IPv6 packet given to the IPv4 parser
C12_Witness ==
    /\ Ipv4Parsed /\ inp.bytes = MkIpv6Udp(Host6A, Host6B, QueryTld)
    /\ out.value = WrongType

\* the header length the low nibble of byte 0 stands for, in bytes
Ipv4ImpliedLength(bytes) == (bytes[1] % 16) * 4

\* C13: Ipv4Header::try_take on a buffer with version nibble 4 returns
\* TooShort whenever the header-length nibble times 4 is less than 20 or
\* greater than the buffer length: no header is returned, and the result is
\* not that of a checksum test.
C13_BadHeaderLengthIsTooShort ==
    (/\ Ipv4Parsed /\ inp.bytes[1] \div 16 = 4
     /\ \/ Ipv4ImpliedLength(inp.bytes) < 20
        \/ Ipv4ImpliedLength(inp.bytes) > Len(inp.bytes))
    => /\ out.value = TooShort
       /\ "header" \notin DOMAIN out.value
       /\ out.value # IncorrectChecksum

\* a 47-byte packet whose header-length nibble asks for 60 bytes
C13_Witness ==
    /\ Ipv4Parsed
    /\ inp.bytes = SetByte(MkIpv4Udp(HostA, HostB, QueryTld), 1, 79)
    /\ Ipv4ImpliedLength(inp.bytes) > Len(inp.bytes)
    /\ out.value = TooShort

\* a full-length packet whose header-length nibble asks for 16 bytes
BadHeaderLengthShortReached ==
    /\ Ipv4Parsed /\ Len(inp.bytes) >= 20
    /\ inp.bytes[1] = 68
    /\ out.value = TooShort

(***************************************************************************)
(* One iteration of the consumer loop on one frame, on its own.  The       *)
(* frames are those of the catalogue, as captured and behind a VLAN tag:   *)
(*   dot1q           IEEE 802.1Q: the 4-byte tag (TCI, ethertype) between  *)
(*                   the addresses and the payload                         *)
(*   inner_ethernet  the 4-byte tag followed by the whole untagged frame   *)
(*                   (a second Ethernet header)                            *)
(*   skip14          the tag, ten more bytes, then the whole untagged      *)
(*                   frame: what VlanTagHeader::try_take steps over        *)
(***************************************************************************)
EthertypeOf(frame) == u16_from_be_bytes(Slice(frame, 12, 14))

Taggings == {"none", "dot1q", "inner_ethernet", "skip14"}

Tagged(frame, tagging) ==
    CASE tagging = "none" -> frame
      [] tagging = "dot1q" ->
            MkEthernet(ETHERTYPE_VLAN_TAG, <<0, 7>> \o SliceFrom(frame, 12))
      [] tagging = "inner_ethernet" ->
            MkEthernet(ETHERTYPE_VLAN_TAG, <<0, 7>> \o Slice(frame, 12, 14) \o frame)
      [] tagging = "skip14" ->
            MkEthernet(ETHERTYPE_VLAN_TAG, VlanTag14(EthertypeOf(frame)) \o frame)

\* the untagged frames of the catalogue that have an Ethernet header
TaggableIds ==
    {f \in FrameIds : /\ Len(FrameData[f]) >= 14
                      /\ EthertypeOf(FrameData[f]) # ETHERTYPE_VLAN_TAG}

\* a frame that is dissected on its own only: an IPv4 header whose
\* total_length (8) is below its own 20 bytes, in front of a UDP datagram
Ipv4ShortTotal ==
    MkEthernet(ETHERTYPE_IPV4,
               MkIpv4Header(HostA, HostB, PROTO_UDP, <<>>, 0 - 12)
               \o MkUdpDatagram(Rfc768PseudoHeader(HostA, HostB, 8 + Len(QueryTld)),
                                1024, 53, QueryTld))

DissectIds == FrameIds \cup {"ipv4_short_total"}

FrameBytes(f) == IF f \in FrameIds THEN FrameData[f] ELSE Ipv4ShortTotal

InitDissect ==
    /\ PipeIdle /\ StatsIdle
    /\ \E f \in DissectIds, t \in Taggings, oc \in BOOLEAN :
          /\ t # "none" => f \in TaggableIds
          /\ inp = [kind |-> "dissect", frame |-> f, tagging |-> t, checked |-> oc]
    /\ out = [done |-> FALSE]

Dissect ==
    /\ inp.kind = "dissect" /\ ~out.done
    /\ out' = [done |-> TRUE,
               value |-> consumer_iteration(
                            [ts |-> [tv_sec |-> 1, tv_usec |-> 5],
                             data |-> Tagged(FrameBytes(inp.frame), inp.tagging)],
                            inp.checked)]
    /\ UNCHANGED <<pipeVars, statistics, calls, inp>>

SpecDissect == InitDissect /\ [][Dissect]_vars

\* the frame was dissected behind a VLAN tag, in one of the two layouts that
\* have the inner ethertype in the tag
VlanDissected ==
    out.done /\ inp.kind = "dissect" /\ inp.tagging \in {"dot1q", "inner_ethernet"}

VlanStages == {"vlan_tag", "inner_ethernet", "inner_ethertype"}

\* C14: a frame with outer ethertype 0x8100 whose inner (post-tag) ethertype
\* is 0x0800 passes the VLAN unwrap and is dissected as the IPv4 packet that
\* follows the tag, with the outcome the untagged frame has; one whose inner
\* ethertype is neither 0x0800 nor 0x86DD is rejected in the VLAN unwrap.
C14_VlanUnwrap ==
    VlanDissected =>
        LET inner == EthertypeOf(FrameData[inp.frame])
        IN /\ inner = ETHERTYPE_IPV4 =>
                out.value = FrameOutcome[inp.frame][inp.checked]
           /\ inner \notin {ETHERTYPE_IPV4, ETHERTYPE_IPV6} =>
                out.value.kind = "rejected" /\ out.value.stage \in VlanStages

\* what holds of the code: only a frame that has fourteen bytes between the
\* outer and the inner Ethernet header is dissected as the untagged frame
UnwrapSkipsFourteen ==
    (out.done /\ inp.kind = "dissect" /\ inp.tagging = "skip14") =>
        LET inner == EthertypeOf(FrameData[inp.frame])
        IN IF inner \in {ETHERTYPE_IPV4, ETHERTYPE_IPV6}
           THEN out.value = FrameOutcome[inp.frame][inp.checked]
           ELSE out.value = Rejected("inner_ethertype")

\* try_from_bytes has been called for one of the address types
AddressParsed == out.done /\ inp.kind = "parse" /\ inp.parser \in DOMAIN AddrWidth

\* C15: try_from_bytes for Ipv4Addr, Ipv6Addr and MacAddr6 returns None on
\* every slice shorter than 4, 16 and 6 bytes (it does not panic), and on a
\* longer slice the value built from exactly the first 4, 16 or 6 bytes.
C15_AddressFromBytes ==
    AddressParsed =>
        IF Len(inp.bytes) < AddrWidth[inp.parser]
        THEN out.value = None
        ELSE out.value = [tag |-> "Some",
                          value |-> Slice(inp.bytes, 0, AddrWidth[inp.parser])]

\* what holds of the code: a slice of at least the width converts, reading
\* the first bytes only; a shorter one panics
AddressFromFullSliceOnly ==
    AddressParsed =>
        IF Len(inp.bytes) < AddrWidth[inp.parser]
        THEN out.value = Panic
        ELSE out.value = [tag |-> "Some",
                          value |-> Slice(inp.bytes, 0, AddrWidth[inp.parser])]

\* C16: processing any captured frame, whatever its bytes, ends in one of
\* the discriminated outcomes (accepted, rejected, or a DNS message that is
\* no query) and never in a panic.
C16_NoFramePanics ==
    (out.done /\ inp.kind = "dissect") =>
        out.value.kind \in {"accepted", "rejected", "ignored"}

\* what holds of the code: the iteration panics in the VLAN tag parser on
\* exactly the frames with 4 to 13 bytes behind an outer ethertype 0x8100,
\* and in the pseudo-header only in builds that check integer overflow
PanickingFrames ==
    (out.done /\ inp.kind = "dissect") =>
        LET data == Tagged(FrameBytes(inp.frame), inp.tagging)
        IN /\ out.value = Panicked("vlan_tag") <=>
                /\ Len(data) >= 14 + 4 /\ Len(data) < 14 + 14
                /\ EthertypeOf(data) = ETHERTYPE_VLAN_TAG
           /\ out.value.kind = "panicked" =>
                \/ out.value = Panicked("vlan_tag")
                \/ out.value = Panicked("pseudo_header") /\ inp.checked

\* both panics of the pseudo-header are reached
PseudoHeaderPanicsReached ==
    /\ out.done /\ inp.kind = "dissect" /\ inp.frame = "ipv4_short_total"
    /\ out.value = Panicked("pseudo_header")

(***************************************************************************)
(* More properties of the capture pipeline                                 *)
(***************************************************************************)
\* C17: the consumer loop ends exactly when the queue is empty and the
\* sender is dropped: the consumer leaves `recv()` only then, never while
\* the producer is alive or a frame is queued, and leaving it logs no error
\* and changes no result.
C17_LoopEndsWhenDrainedAndClosed ==
    [][(pcC = "recv" /\ pcC' # "recv") =>
            /\ queue = <<>> /\ SenderDropped
            /\ logged' = logged /\ result' = result]_vars

\* what holds of the code: the consumer leaves recv() that way, or by the
\* panic of an iteration
LoopEndsOrPanics ==
    [][(pcC = "recv" /\ pcC' # "recv") =>
            \/ /\ pcC' = "join"
               /\ queue = <<>> /\ SenderDropped
               /\ logged' = logged /\ result' = result
            \/ /\ pcC' = "panicked"
               /\ FrameOutcome[Head(queue)][overflow_checks].kind = "panicked"]_vars

\* A run of collect_sample with a deadline ahead and a channel of capacity 1,
\* in which the timeouts the capture poll reports are counted in `out`.
InitTimeouts ==
    /\ pcP = "check" /\ pcC = "recv"
    /\ elapsed = 0
    /\ sample_duration = 1
    /\ buffer_size = 1
    /\ overflow_checks = FALSE
    /\ queue = <<>> /\ rx_open = TRUE /\ in_hand = <<>>
    /\ captured = <<>> /\ received = <<>> /\ lost = <<>>
    /\ capture_error = FALSE
    /\ logged = [warn |-> 0, error |-> 0]
    /\ result = [tag |-> "none"]
    /\ StatsIdle
    /\ inp = [kind |-> "none"]
    /\ out = [done |-> FALSE, timeouts |-> 0]

SpecTimeouts == InitTimeouts /\ [][Next]_vars

\* the capture poll reports a timeout
TimeoutStep == pcP = "poll" /\ pcP' = "check"

\* C18: a capture poll that reports the timeout never ends the producer and
\* enqueues nothing: the producer goes back to its deadline test with the
\* queue, the packet in hand, the captured frames and the log unchanged, so
\* after any number of timeouts with nothing captured the queue is empty;
\* the producer loop ends only by the deadline, a non-timeout error or a
\* fault.
C18_TimeoutRetries ==
    /\ [][TimeoutStep =>
            /\ ProducerRunning'
            /\ queue' = queue /\ in_hand' = in_hand /\ captured' = captured
            /\ capture_error' = capture_error /\ logged' = logged]_vars
    /\ [][out'.timeouts # out.timeouts => TimeoutStep]_vars
    /\ []((out.timeouts > 0 /\ captured = <<>>) =>
            queue = <<>> /\ in_hand = <<>> /\ received = <<>>)
    /\ [][(ProducerRunning /\ ~ProducerRunning') =>
            \/ pcP = "check" /\ elapsed >= sample_duration /\ pcP' = "exiting"
            \/ pcP = "poll" /\ capture_error' /\ ~capture_error /\ pcP' = "exiting"
            \/ pcP = "poll" /\ pcP' = "unwinding"]_vars

\* after two timeouts in a row the producer polls again, before the deadline
C18_Witness ==
    /\ out.timeouts = 2 /\ captured = <<>>
    /\ pcP = "poll" /\ elapsed < sample_duration
    /\ queue = <<>>

\* The questions of the DNS query messages of the catalogue, as the calls
\* of add_query they are to give: the frames that are well-formed UDP/IPv4
\* queries (one of them behind the fourteen bytes the VLAN unwrap skips).
\* Every other frame of the catalogue is malformed, not UDP, a DNS
\* response, or fails the UDP checksum of the consumer.
QuestionsIn(f) ==
    CASE f \in {"query_tld", "vlan_query"} ->
            <<[timestamp |-> <<1, 5000>>, source |-> HostA, record_type |-> 1,
               name |-> <<<<110, 101, 116>>>>]>>
      [] f = "query_two" ->
            <<[timestamp |-> <<1, 5000>>, source |-> HostB, record_type |-> 28,
               name |-> <<<<97>>, <<98>>>>],
              [timestamp |-> <<1, 5000>>, source |-> HostB, record_type |-> 1,
               name |-> <<<<255>>>>]>>
      [] OTHER -> <<>>

\* add_query for each of the calls cs, in order
RECURSIVE StatsOfCalls(_, _)
StatsOfCalls(cs, stats) ==
    IF cs = <<>> THEN stats
    ELSE StatsOfCalls(Tail(cs),
                      add_query(stats, cs[1].timestamp, cs[1].source,
                                cs[1].record_type, cs[1].name))

\* the consumer takes a frame from the queue
ReceiveStep == pcC = "recv" /\ queue # <<>> /\ received' = Append(received, Head(queue))

\* C20: the statistics change only in the consumer step that accepts a
\* frame: a step that takes a DNS query frame calls add_query exactly once
\* per question of the message, in order; a step that takes any other frame
\* (rejected at a stage, not UDP, a DNS response), and every step of the
\* producer, leaves the counters and the top-level-domain log unchanged.
C20_StatisticsOnlyFromQueries ==
    [][IF ReceiveStep
       THEN /\ calls' = calls \o QuestionsIn(Head(queue))
            /\ statistics' = StatsOfCalls(QuestionsIn(Head(queue)), statistics)
       ELSE /\ calls' = calls
            /\ statistics' = statistics]_vars

\* a response and a query with two questions were received: two calls
C20_Witness ==
    /\ received = <<"response", "query_two">>
    /\ Len(calls) = 2
    /\ statistics.total_count = 2
    /\ Len(statistics.top_level_domains) = 0

\* Ipv4Header::try_take has been called on a buffer that passes the length,
\* version and header-length tests
Ipv4HeaderPresent ==
    /\ Ipv4Parsed /\ Len(inp.bytes) >= 20 /\ inp.bytes[1] \div 16 = 4
    /\ Ipv4ImpliedLength(inp.bytes) >= 20
    /\ Ipv4ImpliedLength(inp.bytes) <= Len(inp.bytes)

\* C19: Ipv4Header::try_take returns Success only if internet_checksum over
\* exactly bytes[0 .. 4 x header-length nibble] is 0xFFFF; when the version
\* and length tests pass and that checksum differs it returns
\* IncorrectChecksum and no header; the bytes behind the header span do not
\* influence the outcome (they are the `rest` of a Success).
C19_ChecksumOverHeaderSpan ==
    /\ (Ipv4Parsed /\ out.value.tag = "Success") => Ipv4HeaderPresent
    /\ Ipv4HeaderPresent =>
         LET span == Slice(inp.bytes, 0, Ipv4ImpliedLength(inp.bytes))
             alone == Ipv4Header_try_take(span)
         IN /\ out.value.tag = IF internet_checksum(span) = 65535
                               THEN "Success" ELSE "IncorrectChecksum"
            /\ out.value.tag = "IncorrectChecksum" => out.value = IncorrectChecksum
            /\ out.value.tag = alone.tag
            /\ out.value.tag = "Success" =>
                 /\ out.value.header = alone.header
                 /\ out.value.rest = SliceFrom(inp.bytes, Ipv4ImpliedLength(inp.bytes))

\* a header with one option word that verifies, in front of eight bytes
C19_Witness ==
    /\ Ipv4HeaderPresent /\ inp.bytes = Ipv4WithOption
    /\ out.value.tag = "Success"
    /\ Len(out.value.rest) = 8
    /\ internet_checksum(inp.bytes) # 65535

\* a header with a flipped bit, and a good header before a flipped bit
ChecksumCasesReached ==
    /\ Ipv4HeaderPresent
    /\ \/ /\ inp.bytes = Corrupt(MkIpv4Udp(HostA, HostB, QueryTld), 9)
          /\ out.value = IncorrectChecksum
       \/ /\ inp.bytes = Corrupt(MkIpv4Udp(HostA, HostB, QueryTld), 25)
          /\ out.value.tag = "Success"

====
